---- MODULE Spec2Model ----
(***************************************************************************)
(* A model of path_planning.py: the command-line planner that reads a      *)
(* polygon, sweeps it with horizontal scan lines in a UTM frame and writes *)
(* the boustrophedon waypoint list.                                        *)
(*                                                                         *)
(* Numbers.  The program computes in IEEE doubles; the model computes in   *)
(* exact integers (and exact rationals num/den for interpolated points).   *)
(* One model unit is one metre in the planar frame.  Every polygon the     *)
(* model draws has the property OnGrid below, which makes every edge       *)
(* crossing of a scan line an integer, so the clipping is exact.           *)
(*                                                                         *)
(* Library calls.  shapely and pyproj are not code of the repository.      *)
(* Polygon(...).is_valid is modelled as OGC validity of a single ring,     *)
(* line.intersection(poly) as the intersection of the closed region with   *)
(* the scan line, classified by geom_type as GEOS classifies it, each      *)
(* piece oriented like the scan line (minx to maxx) and the pieces of one  *)
(* line listed in that order; `for seg in segment` walks the lines of a    *)
(* MultiLineString, as it does in the shapely 1.x the code is written for. *)
(* The transformer pair of pyproj is a                                     *)
(* bijection between geographic and planar points; the model names a       *)
(* geographic point by its planar image, so polygon_coords is given as the *)
(* planar shape together with the geographic centroid (site) that selects  *)
(* the frame, and a waypoint carries the planar point whose image          *)
(* project_to_latlon returns.                                              *)
(***************************************************************************)
EXTENDS Integers, Sequences, FiniteSets, TLC

VARIABLES
    pc,                \* position of main(): start, validate, project, scan, interp, returned, done, error
    polygon_coords,    \* parse_kml_polygon's coord_list: a sequence of <<x, y>>
    site,              \* [lat, lon]: the centroid of the geographic polygon, in degrees
    spacing,           \* args.spacing
    waypoint_interval, \* args.waypoint_interval
    altitude,          \* args.altitude
    err,               \* the exception that ended the run, or "none"
    utm_crs,           \* EPSG code chosen by get_utm_crs, 0 before the call
    poly_utm,          \* the projected polygon (a closed ring), <<>> before projection
    bnd,               \* poly_utm.bounds as [minx, miny, maxx, maxy]
    y,                 \* the scan loop's y
    scans,             \* history: the y of every scan line built at line 64
    lines,             \* the list `lines` of retained segments [x0, x1, y, gen]
    idx,               \* position of `for line in lines` (1-based)
    reverse,           \* the flag `reverse`
    waypoints,         \* the list `waypoints` being built
    counts,            \* history: len(segment_points) of every processed line
    result,            \* the list returned by generate_sweep_waypoints
    kml_out            \* the coordinates written by write_kml_waypoints

vars == <<pc, polygon_coords, site, spacing, waypoint_interval, altitude, err,
          utm_crs, poly_utm, bnd, y, scans, lines, idx, reverse, waypoints,
          counts, result, kml_out>>

----------------------------------------------------------------------------
(* Arithmetic *)

Max(a, b) == IF a >= b THEN a ELSE b

Min(a, b) == IF a <= b THEN a ELSE b

Abs(a) == IF a >= 0 THEN a ELSE 0 - a

\* Python's floor division a // b for b # 0.
FloorDiv(a, b) == IF b > 0 THEN a \div b ELSE (0 - a) \div (0 - b)

\* Python's int(a / b) for b > 0: truncation toward zero.
TruncDiv(a, b) == IF a >= 0 THEN a \div b ELSE 0 - ((0 - a) \div b)

RECURSIVE Fact(_)
Fact(n) == IF n <= 1 THEN 1 ELSE n * Fact(n - 1)

SetMin(S) == CHOOSE m \in S : \A n \in S : m <= n

SetMax(S) == CHOOSE m \in S : \A n \in S : m >= n

\* The elements of a finite set of integers in ascending order.
SortedSeq(S) ==
    [k \in 1..Cardinality(S) |-> CHOOSE x \in S : Cardinality({z \in S : z < x}) = k - 1]

Reverse(s) == [i \in 1..Len(s) |-> s[Len(s) + 1 - i]]

----------------------------------------------------------------------------
(* Planar geometry of a ring (shapely's Polygon with one shell) *)

X(p) == p[1]

Y(p) == p[2]

\* Polygon(coords) closes the ring when the last coordinate is not the first.
Ring(coords) ==
    IF Len(coords) = 0 \/ coords[1] = coords[Len(coords)]
    THEN coords
    ELSE Append(coords, coords[1])

\* A ring without its repeated consecutive points (which validity ignores).
Dedup(r) ==
    LET keep == {i \in 1..Len(r) : i = 1 \/ r[i] # r[i - 1]}
        ks   == SortedSeq(keep)
    IN  [k \in 1..Len(ks) |-> r[ks[k]]]

Cross(o, a, b) == (X(a) - X(o)) * (Y(b) - Y(o)) - (Y(a) - Y(o)) * (X(b) - X(o))

Sign(v) == IF v > 0 THEN 1 ELSE IF v < 0 THEN 0 - 1 ELSE 0

\* p lies on the closed segment a-b.
OnSegment(p, a, b) ==
    /\ Cross(a, b, p) = 0
    /\ Min(X(a), X(b)) <= X(p) /\ X(p) <= Max(X(a), X(b))
    /\ Min(Y(a), Y(b)) <= Y(p) /\ Y(p) <= Max(Y(a), Y(b))

\* The closed segments a-b and c-d share a point.
SegmentsMeet(a, b, c, d) ==
    \/ /\ Sign(Cross(a, b, c)) * Sign(Cross(a, b, d)) < 0
       /\ Sign(Cross(c, d, a)) * Sign(Cross(c, d, b)) < 0
    \/ OnSegment(c, a, b) \/ OnSegment(d, a, b)
    \/ OnSegment(a, c, d) \/ OnSegment(b, c, d)

\* Twice the signed area of the ring (shoelace).
RECURSIVE Shoelace(_, _)
Shoelace(r, i) ==
    IF i >= Len(r) THEN 0
    ELSE X(r[i]) * Y(r[i + 1]) - X(r[i + 1]) * Y(r[i]) + Shoelace(r, i + 1)

Area2(coords) == IF Len(coords) = 0 THEN 0 ELSE Abs(Shoelace(Ring(coords), 1))

\* The validity test with the overlap of neighbouring edges left out.
RingSimpleNoOverlap(r) ==
    LET n == Len(r) - 1
    IN  /\ n >= 3
        /\ \A i \in 1..n : \A j \in (i + 1)..n :
              LET adjacent == j = i + 1 \/ (i = 1 /\ j = n)
              IN  adjacent \/ ~SegmentsMeet(r[i], r[i + 1], r[j], r[j + 1])

\* A closed ring r (first = last, no repeated consecutive point) is simple:
\* edges that are not neighbours do not meet, neighbours meet in their
\* shared vertex only.
RingSimple(r) ==
    LET n == Len(r) - 1
    IN  /\ n >= 3
        /\ \A i \in 1..n : \A j \in (i + 1)..n :
              LET a == r[i]
                  b == r[i + 1]
                  c == r[j]
                  d == r[j + 1]
              IN  IF j = i + 1
                  THEN ~OnSegment(a, c, d) /\ ~OnSegment(d, a, b)
                  ELSE IF i = 1 /\ j = n
                  THEN ~OnSegment(b, c, d) /\ ~OnSegment(c, a, b)
                  ELSE ~SegmentsMeet(a, b, c, d)

\* poly_lonlat.is_valid and not poly_lonlat.is_empty.
is_valid(coords) == \E r \in {Dedup(Ring(coords))} : RingSimple(r)

\* poly.bounds
Bounds(r) ==
    [minx |-> SetMin({X(r[i]) : i \in 1..Len(r)}),
     miny |-> SetMin({Y(r[i]) : i \in 1..Len(r)}),
     maxx |-> SetMax({X(r[i]) : i \in 1..Len(r)}),
     maxy |-> SetMax({Y(r[i]) : i \in 1..Len(r)})]

----------------------------------------------------------------------------
(* line.intersection(poly_utm) for the horizontal scan line at height c *)

\* The x at which the edge a-b, which is not horizontal, crosses height c.
CrossX(a, b, c) ==
    LET lo == IF Y(a) < Y(b) THEN a ELSE b
        hi == IF Y(a) < Y(b) THEN b ELSE a
    IN  X(lo) + ((X(hi) - X(lo)) * (c - Y(lo))) \div (Y(hi) - Y(lo))

\* Every crossing of an edge with an integer height is an integer point.
OnGrid(coords) ==
    LET r == Ring(coords)
    IN  \A i \in 1..(Len(r) - 1) :
           LET lo == IF Y(r[i]) < Y(r[i + 1]) THEN r[i] ELSE r[i + 1]
               hi == IF Y(r[i]) < Y(r[i + 1]) THEN r[i + 1] ELSE r[i]
           IN  \A c \in (Y(lo) + 1)..(Y(hi) - 1) :
                  ((X(hi) - X(lo)) * (c - Y(lo))) % (Y(hi) - Y(lo)) = 0

\* Where the boundary of ring r meets height c: its vertices at that height
\* and the crossings of the edges that pass through it.
Breakpoints(r, c) ==
    {X(r[i]) : i \in {k \in 1..(Len(r) - 1) : Y(r[k]) = c}}
    \cup {CrossX(r[i], r[i + 1], c) :
             i \in {k \in 1..(Len(r) - 1) :
                       \/ Y(r[k]) < c /\ c < Y(r[k + 1])
                       \/ Y(r[k + 1]) < c /\ c < Y(r[k])}}

\* The stretch a..b of height c, between two neighbouring breakpoints, lies in
\* the closed region of r: on a horizontal edge, or inside by the parity of
\* the edges above its midpoint.
GapInside(r, a, b, c) ==
    LET n == Len(r) - 1
        onEdge == \E i \in 1..n :
                     /\ Y(r[i]) = c /\ Y(r[i + 1]) = c
                     /\ Min(X(r[i]), X(r[i + 1])) <= a
                     /\ b <= Max(X(r[i]), X(r[i + 1]))
        above(i) ==
            LET x1 == X(r[i])
                y1 == Y(r[i])
                x2 == X(r[i + 1])
                y2 == Y(r[i + 1])
                dx == x2 - x1
                v  == 2 * y1 * dx + (y2 - y1) * ((a + b) - 2 * x1)
            IN  /\ (2 * x1 > a + b) # (2 * x2 > a + b)
                /\ IF dx > 0 THEN v > 2 * c * dx ELSE v < 2 * c * dx
    IN  onEdge \/ Cardinality({i \in 1..n : above(i)}) % 2 = 1

\* The pieces cut out of the line of height c by the closed region of r,
\* given the breakpoints bs in ascending order: a piece of nonzero length
\* is a longest run of stretches that lie inside, an isolated point is a
\* breakpoint with no such stretch on either side.
PiecesBetween(r, c, bs) ==
    LET n  == Len(bs)
        in(i) == i >= 1 /\ i <= n - 1 /\ GapInside(r, bs[i], bs[i + 1], c)
        endOf(i) == SetMin({j \in i..(n - 1) : ~in(j + 1)})
    IN  [parts  |-> {[x0 |-> bs[i], x1 |-> bs[endOf(i) + 1]] :
                        i \in {k \in 1..(n - 1) : in(k) /\ ~in(k - 1)}},
         points |-> {bs[i] : i \in {k \in 1..n : ~in(k - 1) /\ ~in(k)}}]

\* The connected pieces of the intersection of the closed region of r with
\* the line of height c: the pieces of nonzero length in ascending x, and the
\* isolated points.
Pieces(r, c) ==
    LET ps == CHOOSE p \in {PiecesBetween(r, c, bs) : bs \in {SortedSeq(Breakpoints(r, c))}} : TRUE
        x0s == SortedSeq({p.x0 : p \in ps.parts})
    IN  [parts  |-> [k \in 1..Len(x0s) |-> CHOOSE p \in ps.parts : p.x0 = x0s[k]],
         points |-> ps.points]

\* segment.geom_type (and "Empty" for segment.is_empty).
geom_type(pieces) ==
    LET nl == Len(pieces.parts)
        np == Cardinality(pieces.points)
    IN  IF nl = 0 /\ np = 0 THEN "Empty"
        ELSE IF np = 0 THEN (IF nl = 1 THEN "LineString" ELSE "MultiLineString")
        ELSE IF nl = 0 THEN (IF np = 1 THEN "Point" ELSE "MultiPoint")
        ELSE "GeometryCollection"

\* What lines 66-71 append to `lines` for one intersection result: the
\* line itself, or the lines of a MultiLineString in their order.
Retained(pieces) ==
    IF geom_type(pieces) = "LineString" THEN pieces.parts
    ELSE IF geom_type(pieces) = "MultiLineString" THEN pieces.parts
    ELSE <<>>

----------------------------------------------------------------------------
(* get_utm_crs, the sort and the interpolation *)

\* get_utm_crs(lat, lon), in whole degrees: the EPSG code of the f-string.
get_utm_crs(lat, lon) ==
    LET zone_number == TruncDiv(lon + 180, 6) + 1
    IN  IF lat >= 0 THEN 32600 + zone_number ELSE 32700 + zone_number

\* The loop test with the last line left out.
LoopCondStrict(yv, maxy) == yv < maxy

\* while y <= maxy
LoopCond(yv, maxy) == yv <= maxy

\* A sort by the same key that puts the later of two equal keys first.
SortedTiesReversed(s) ==
    LET before(j, i) == s[j].y < s[i].y \/ (s[j].y = s[i].y /\ j > i)
        rank(i) == Cardinality({j \in 1..Len(s) : before(j, i)}) + 1
    IN  [k \in 1..Len(s) |-> s[CHOOSE i \in 1..Len(s) : rank(i) = k]]

\* sorted(lines, key=lambda l: l.centroid.y): a stable sort by the key, which
\* for a horizontal segment is its height. Element i goes to the place after
\* the elements of smaller key and the earlier elements of equal key.
SortedByCentroidY(s) ==
    LET before(j, i) == s[j].y < s[i].y \/ (s[j].y = s[i].y /\ j < i)
        rank(i) == Cardinality({j \in 1..Len(s) : before(j, i)}) + 1
    IN  [k \in 1..Len(s) |-> s[CHOOSE i \in 1..Len(s) : rank(i) = k]]

\* The count without its lower limit of two.
NumPointsNoFloor(length, interval) == FloorDiv(length, interval) + 1

\* num_points = max(int(length // waypoint_interval) + 1, 2)
NumPoints(length, interval) == Max(FloorDiv(length, interval) + 1, 2)

\* Point i (0-based) of the num_points of a line: t = i / (num_points - 1),
\* line.interpolate(t * length), tagged with the altitude. The x is the
\* rational xn / xd.
SegmentPoint(line, i, num_points, alt) ==
    [xn  |-> line.x0 * (num_points - 1) + i * (line.x1 - line.x0),
     xd  |-> num_points - 1,
     y   |-> line.y,
     alt |-> alt]

\* segment_points of lines 79-84.
SegmentPoints(line, interval, alt) ==
    LET n == NumPoints(line.x1 - line.x0, interval)
    IN  [i \in 1..n |-> SegmentPoint(line, i - 1, n, alt)]

\* The emission that never reverses.
EmitForward(points, rev) == points

\* if reverse: segment_points.reverse()
Emit(points, rev) == IF rev THEN Reverse(points) ELSE points

\* The flag left as it is.
KeepReverse(rev) == rev

\* reverse = not reverse
NextReverse(rev) == ~rev

----------------------------------------------------------------------------
(* Inputs *)

\* Bounds of the model.
GridMax == 2

MaxScans == 8

\* Vertices of the drawn polygons: x in steps of GridMax!, so that every
\* polygon over them is OnGrid.
GridPoints == {<<Fact(GridMax) * i, j>> : i \in 0..GridMax, j \in 0..GridMax}

\* Every coordinate list of two or three grid points.
GridPolygons == UNION {[1..n -> GridPoints] : n \in 2..3}

Square100 == <<<<0, 0>>, <<0, 100>>, <<100, 100>>, <<100, 0>>>>

\* A square with a notch cut into its top: two lobes above y = 2.
Notched == <<<<0, 0>>, <<6, 0>>, <<6, 4>>, <<4, 4>>, <<4, 2>>, <<2, 2>>, <<2, 4>>, <<0, 4>>>>

\* A slab with a tower on the right and a small peak whose tip is at (3, 2).
PeakAndTower ==
    <<<<0, 0>>, <<8, 0>>, <<8, 3>>, <<6, 3>>, <<6, 1>>, <<4, 1>>, <<3, 2>>, <<2, 1>>, <<0, 1>>>>

Diamond == <<<<2, 0>>, <<4, 2>>, <<2, 4>>, <<0, 2>>>>

\* The same ring as Diamond, closed as KML closes it.
ClosedDiamond == <<<<2, 0>>, <<4, 2>>, <<2, 4>>, <<0, 2>>, <<2, 0>>>>

\* A self-crossing ring (its signed area is zero).
BowTie == <<<<0, 0>>, <<4, 4>>, <<4, 0>>, <<0, 4>>>>

\* Four points on one line.
Flat == <<<<0, 0>>, <<2, 0>>, <<4, 0>>, <<6, 0>>>>

Shapes == {Notched, PeakAndTower, Diamond, ClosedDiamond, BowTie, Flat}

Sites == {[lat |-> 13, lon |-> 80], [lat |-> 0 - 34, lon |-> 0 - 58]}

\* The runs the model draws: small polygons with small steps (valid and
\* not), and the 100 m square with steps of tens of metres.
Inputs ==
    [poly : GridPolygons \cup Shapes, spacing : {0 - 1, 0, 1, 2},
     interval : {0 - 1, 0, 1, 3}, altitude : {20}, site : Sites]
    \cup
    [poly : {Square100}, spacing : {50, 30}, interval : {10, 30},
     altitude : {20, 35}, site : Sites]

----------------------------------------------------------------------------
(* main() *)

Init ==
    \E in \in Inputs :
        /\ OnGrid(in.poly)
        /\ polygon_coords = in.poly
        /\ site = in.site
        /\ spacing = in.spacing
        /\ waypoint_interval = in.interval
        /\ altitude = in.altitude
        /\ pc = "start"
        /\ err = "none"
        /\ utm_crs = 0
        /\ poly_utm = <<>>
        /\ bnd = [minx |-> 0, miny |-> 0, maxx |-> 0, maxy |-> 0]
        /\ y = 0
        /\ scans = <<>>
        /\ lines = <<>>
        /\ idx = 1
        /\ reverse = FALSE
        /\ waypoints = <<>>
        /\ counts = <<>>
        /\ result = <<>>
        /\ kml_out = <<>>

Raise(e) ==
    /\ pc' = "error"
    /\ err' = e

\* polygon_coords = parse_kml_polygon(args.input_kml): the list of the
\* file's coordinates, refused when it holds fewer than three.
ParseKml ==
    /\ pc = "start"
    /\ IF Len(polygon_coords) < 3
       THEN Raise("ValueError")
       ELSE pc' = "validate" /\ err' = err
    /\ UNCHANGED <<polygon_coords, site, spacing, waypoint_interval, altitude,
                   utm_crs, poly_utm, bnd, y, scans, lines, idx, reverse,
                   waypoints, counts, result, kml_out>>

\* Lines 52-54: Polygon(polygon_coords), which raises for a ring of fewer
\* than four coordinates, then the validity test.
Validate ==
    /\ pc = "validate"
    /\ IF Len(Ring(polygon_coords)) < 4 \/ ~is_valid(polygon_coords)
       THEN Raise("ValueError")
       ELSE pc' = "project" /\ err' = err
    /\ UNCHANGED <<polygon_coords, site, spacing, waypoint_interval, altitude,
                   utm_crs, poly_utm, bnd, y, scans, lines, idx, reverse,
                   waypoints, counts, result, kml_out>>

\* Lines 55-62: the frame from the centroid, the projection, the bounds and
\* the start of the scan.
Project ==
    /\ pc = "project"
    /\ utm_crs' = get_utm_crs(site.lat, site.lon)
    /\ poly_utm' = Ring(polygon_coords)
    /\ bnd' = Bounds(Ring(polygon_coords))
    /\ y' = Bounds(Ring(polygon_coords)).miny
    /\ lines' = <<>>
    /\ pc' = "scan"
    /\ UNCHANGED <<polygon_coords, site, spacing, waypoint_interval, altitude,
                   err, scans, idx, reverse, waypoints, counts, result, kml_out>>

\* Lines 63-72: one turn of the scan loop. The model follows a run for
\* MaxScans turns.
ScanStep ==
    /\ pc = "scan"
    /\ LoopCond(y, bnd.maxy)
    /\ Len(scans) < MaxScans
    /\ \E kept \in {Retained(Pieces(poly_utm, y))} :
          lines' = lines \o [k \in 1..Len(kept) |->
                                [x0 |-> kept[k].x0, x1 |-> kept[k].x1, y |-> y,
                                 gen |-> Len(lines) + k]]
    /\ scans' = Append(scans, y)
    /\ y' = y + spacing
    /\ UNCHANGED <<pc, polygon_coords, site, spacing, waypoint_interval, altitude,
                   err, utm_crs, poly_utm, bnd, idx, reverse, waypoints, counts,
                   result, kml_out>>

\* Lines 73-75: the loop ends, the segments are sorted.
SortLines ==
    /\ pc = "scan"
    /\ ~LoopCond(y, bnd.maxy)
    /\ lines' = SortedByCentroidY(lines)
    /\ waypoints' = <<>>
    /\ reverse' = FALSE
    /\ idx' = 1
    /\ pc' = "interp"
    /\ UNCHANGED <<polygon_coords, site, spacing, waypoint_interval, altitude,
                   err, utm_crs, poly_utm, bnd, y, scans, counts, result, kml_out>>

\* Lines 76-88: one turn of `for line in lines`. A waypoint_interval of zero
\* makes length // waypoint_interval raise.
Interpolate ==
    /\ pc = "interp"
    /\ idx <= Len(lines)
    /\ IF waypoint_interval = 0
       THEN /\ Raise("ZeroDivisionError")
            /\ UNCHANGED <<idx, reverse, waypoints, counts>>
       ELSE \E pts \in {SegmentPoints(lines[idx], waypoint_interval, altitude)} :
                /\ waypoints' = waypoints \o Emit(pts, reverse)
                /\ counts' = Append(counts, Len(pts))
                /\ reverse' = NextReverse(reverse)
                /\ idx' = idx + 1
                /\ UNCHANGED <<pc, err>>
    /\ UNCHANGED <<polygon_coords, site, spacing, waypoint_interval, altitude,
                   utm_crs, poly_utm, bnd, y, scans, lines, result, kml_out>>

\* Line 89: return waypoints.
Return ==
    /\ pc = "interp"
    /\ idx > Len(lines)
    /\ result' = waypoints
    /\ pc' = "returned"
    /\ UNCHANGED <<polygon_coords, site, spacing, waypoint_interval, altitude,
                   err, utm_crs, poly_utm, bnd, y, scans, lines, idx, reverse,
                   waypoints, counts, kml_out>>

\* write_kml_waypoints(args.output_kml, waypoints): the coordinates in order.
WriteKml ==
    /\ pc = "returned"
    /\ kml_out' = result
    /\ pc' = "done"
    /\ UNCHANGED <<polygon_coords, site, spacing, waypoint_interval, altitude,
                   err, utm_crs, poly_utm, bnd, y, scans, lines, idx, reverse,
                   waypoints, counts, result>>

Next ==
    \/ ParseKml
    \/ Validate
    \/ Project
    \/ ScanStep
    \/ SortLines
    \/ Interpolate
    \/ Return
    \/ WriteKml

Spec == Init /\ [][Next]_vars


----------------------------------------------------------------------------
(* get_utm_crs on its own: every centroid of whole degrees *)

FrameInit ==
    /\ site \in [lat : (0 - 90)..90, lon : (0 - 180)..180]
    /\ pc = "crs"
    /\ polygon_coords = <<>>
    /\ spacing = 1
    /\ waypoint_interval = 1
    /\ altitude = 20
    /\ err = "none"
    /\ utm_crs = 0
    /\ poly_utm = <<>>
    /\ bnd = [minx |-> 0, miny |-> 0, maxx |-> 0, maxy |-> 0]
    /\ y = 0
    /\ scans = <<>>
    /\ lines = <<>>
    /\ idx = 1
    /\ reverse = FALSE
    /\ waypoints = <<>>
    /\ counts = <<>>
    /\ result = <<>>
    /\ kml_out = <<>>

\* utm_crs = get_utm_crs(centroid.y, centroid.x)
GetUtmCrs ==
    /\ pc = "crs"
    /\ utm_crs' = get_utm_crs(site.lat, site.lon)
    /\ pc' = "crs_done"
    /\ UNCHANGED <<polygon_coords, site, spacing, waypoint_interval, altitude,
                   err, poly_utm, bnd, y, scans, lines, idx, reverse, waypoints,
                   counts, result, kml_out>>

FrameNext == GetUtmCrs

FrameSpec == FrameInit /\ [][FrameNext]_vars

----------------------------------------------------------------------------
(* Properties *)

\* The loop of line 63 is over and `lines` is sorted.
Sorted == pc \in {"interp", "returned", "done"} \/ (pc = "error" /\ poly_utm # <<>>)

RECURSIVE Sum(_, _)
Sum(s, k) == IF k <= 0 THEN 0 ELSE s[k] + Sum(s, k - 1)

\* The waypoints emitted for the k-th processed segment.
Block(k) == SubSeq(waypoints, Sum(counts, k - 1) + 1, Sum(counts, k))

\* C1. Alternation law: the first segment in sorted order is emitted in
\* forward order (from its x0 to its x1), and every segment is emitted in the
\* direction opposite to that of the segment before it, also when the two
\* come from the same scan line: odd segments run low-x to high-x, even
\* segments high-x to low-x.
AlternationLaw ==
    /\ Len(counts) <= Len(lines)
    /\ Sum(counts, Len(counts)) = Len(waypoints)
    /\ \A k \in 1..Len(counts) :
          LET b == Block(k)
          IN  /\ Len(b) >= 2
              /\ b[1].y = lines[k].y
              /\ IF k % 2 = 1
                 THEN /\ b[1].xn = lines[k].x0 * b[1].xd
                      /\ \A i \in 1..(Len(b) - 1) : b[i].xn < b[i + 1].xn
                 ELSE /\ b[1].xn = lines[k].x1 * b[1].xd
                      /\ \A i \in 1..(Len(b) - 1) : b[i].xn > b[i + 1].xn

\* A finished run in which two neighbouring segments of one scan line were
\* emitted, among at least three segments.
AlternationWitness ==
    /\ pc = "done"
    /\ Len(counts) >= 3
    /\ \E k \in 1..(Len(counts) - 1) :
          /\ lines[k].y = lines[k + 1].y
          /\ Block(k)[1].xn < Block(k)[2].xn
          /\ Block(k + 1)[1].xn > Block(k + 1)[2].xn

\* C2. A run with spacing <= 0 or waypoint_interval <= 0 fails before any
\* projection or scan line: no frame is chosen, nothing is projected, no scan
\* line is built, and the run neither returns nor writes waypoints.
InvalidConfigurationRejected ==
    (spacing <= 0 \/ waypoint_interval <= 0) =>
        /\ utm_crs = 0
        /\ poly_utm = <<>>
        /\ scans = <<>>
        /\ result = <<>>
        /\ pc \notin {"scan", "interp", "returned", "done"}

\* C3. A polygon of fewer than three vertices or of zero area never gets
\* past validation: the run ends in the geometry error (ValueError) with no
\* frame chosen, nothing projected, no scan line and no waypoint, returned
\* or written.
DegenerateRejected ==
    (Len(polygon_coords) < 3 \/ Area2(polygon_coords) = 0) =>
        /\ pc \in {"start", "validate", "error"}
        /\ pc = "error" => err = "ValueError"
        /\ utm_crs = 0
        /\ poly_utm = <<>>
        /\ scans = <<>>
        /\ waypoints = <<>>
        /\ result = <<>>
        /\ kml_out = <<>>

\* Three distinct vertices on one line, refused by the validity test.
DegenerateWitness ==
    /\ pc = "error"
    /\ err = "ValueError"
    /\ Len(polygon_coords) = 3
    /\ Cardinality({polygon_coords[i] : i \in 1..3}) = 3
    /\ Area2(polygon_coords) = 0

\* C4. With waypoint_interval > 0, a segment of length L yields exactly
\* max(floor(L / waypoint_interval) + 1, 2) >= 2 waypoints, the i-th of them
\* (in forward order, i from 0) at x0 + i / (n - 1) * L, so that the first and
\* the last are the segment's two ends.
PointCount ==
    waypoint_interval > 0 =>
        \A k \in 1..Len(counts) :
            LET L == lines[k].x1 - lines[k].x0
                n == counts[k]
                b == IF k % 2 = 1 THEN Block(k) ELSE Reverse(Block(k))
            IN  /\ L > 0
                /\ n = Max((L \div waypoint_interval) + 1, 2)
                /\ n >= 2
                /\ Len(b) = n
                /\ \A i \in 0..(n - 1) :
                      /\ b[i + 1].xd > 0
                      /\ b[i + 1].xn * (n - 1) = b[i + 1].xd * (lines[k].x0 * (n - 1) + i * L)
                /\ b[1].xn = lines[k].x0 * b[1].xd
                /\ b[n].xn = lines[k].x1 * b[n].xd

\* A finished run with a segment shorter than the interval (two waypoints by
\* the lower limit) and a segment with more than two waypoints.
PointCountWitness ==
    /\ pc = "done"
    /\ waypoint_interval > 0
    /\ \E k \in 1..Len(counts) :
          /\ lines[k].x1 - lines[k].x0 < waypoint_interval
          /\ counts[k] = 2
    /\ \E k \in 1..Len(counts) : counts[k] > 2

\* C5. With spacing s > 0 the scan loop builds exactly floor(H / s) + 1 scan
\* lines, H = maxy - miny, the k-th (from 0) at miny + k * s, the last one also
\* when it lies on maxy; and the model's limit on the turns of the loop is
\* never what ends it.
ScanLineCount ==
    (spacing > 0 /\ poly_utm # <<>>) =>
        LET H == bnd.maxy - bnd.miny
        IN  /\ \A k \in 1..Len(scans) : scans[k] = bnd.miny + (k - 1) * spacing
            /\ Len(scans) <= (H \div spacing) + 1
            /\ pc # "scan" => Len(scans) = (H \div spacing) + 1
            /\ y = bnd.miny + Len(scans) * spacing
            /\ Len(scans) < MaxScans

\* A finished run of at least three scan lines whose last one lies on maxy.
ScanLineCountWitness ==
    /\ pc = "done"
    /\ spacing > 0
    /\ Len(scans) >= 3
    /\ scans[Len(scans)] = bnd.maxy

\* C6. The segments retained for a scan line are exactly the pieces of
\* nonzero length of its intersection with the polygon, whatever else the
\* intersection holds, and no retained segment has length zero.
RetainedAreLinePieces ==
    poly_utm # <<>> =>
        /\ \A k \in 1..Len(lines) : lines[k].x0 < lines[k].x1
        /\ \A k \in 1..Len(scans) :
              {<<lines[i].x0, lines[i].x1>> : i \in {j \in 1..Len(lines) : lines[j].y = scans[k]}}
              = {<<Pieces(poly_utm, scans[k]).parts[i].x0, Pieces(poly_utm, scans[k]).parts[i].x1>> :
                    i \in 1..Len(Pieces(poly_utm, scans[k]).parts)}

\* C7. After the sort the segments are in ascending order of centroid y,
\* segments of equal y in the order in which they were generated, no segment
\* lost or added; so the y of the waypoints emitted never decreases.
SortedOrder ==
    Sorted =>
        /\ {lines[i].gen : i \in 1..Len(lines)} = 1..Len(lines)
        /\ \A i \in 1..Len(lines) : \A j \in (i + 1)..Len(lines) :
              \/ lines[i].y < lines[j].y
              \/ lines[i].y = lines[j].y /\ lines[i].gen < lines[j].gen
        /\ \A i \in 1..(Len(waypoints) - 1) : waypoints[i].y <= waypoints[i + 1].y

\* A finished run with two segments of one scan line and segments of
\* different scan lines.
SortedOrderWitness ==
    /\ pc = "done"
    /\ \E i \in 1..(Len(lines) - 1) : lines[i].y = lines[i + 1].y
    /\ \E i \in 1..(Len(lines) - 1) : lines[i].y < lines[i + 1].y
    /\ Len(waypoints) > 0

Scenario ==
    /\ polygon_coords = Square100
    /\ spacing = 50
    /\ waypoint_interval = 10
    /\ altitude = 20

\* C8. The 100 m square with spacing 50, waypoint_interval 10 and altitude
\* 20: three scan lines at y = 0, 50, 100, each kept as the segment 0..100,
\* eleven waypoints each at x = 0, 10, .., 100, 33 in all, all at altitude 20,
\* the first and third line from low x to high x, the second from high x to
\* low x.
SquareScenario ==
    (Scenario /\ pc \in {"returned", "done"}) =>
        /\ scans = <<0, 50, 100>>
        /\ Len(lines) = 3
        /\ \A k \in 1..3 : lines[k].x0 = 0 /\ lines[k].x1 = 100 /\ lines[k].y = 50 * (k - 1)
        /\ counts = <<11, 11, 11>>
        /\ Len(result) = 33
        /\ \A i \in 1..33 : result[i].alt = 20 /\ result[i].xd > 0
        /\ \A i \in 1..11 :
              /\ result[i].y = 0
              /\ result[i].xn = (10 * (i - 1)) * result[i].xd
              /\ result[11 + i].y = 50
              /\ result[11 + i].xn = (100 - 10 * (i - 1)) * result[11 + i].xd
              /\ result[22 + i].y = 100
              /\ result[22 + i].xn = (10 * (i - 1)) * result[22 + i].xd

\* The scenario's run, finished and written.
SquareScenarioWitness ==
    /\ Scenario
    /\ pc = "done"
    /\ Len(kml_out) = 33
    /\ kml_out = result

\* C9. get_utm_crs returns 32600 + zone for lat >= 0 and 32700 + zone
\* otherwise, zone = floor((lon + 180) / 6) + 1, and for every longitude from
\* -180 to 180 the zone is one of 1..60.
FrameLaw ==
    pc = "crs_done" =>
        LET zone == ((site.lon + 180) \div 6) + 1
        IN  /\ utm_crs = (IF site.lat >= 0 THEN 32600 ELSE 32700) + zone
            /\ zone \in 1..60

\* C10. Every run terminates: each turn of the scan loop, the only loop
\* whose length the inputs do not fix beforehand, moves y up towards maxy, so
\* that y > maxy is reached after finitely many turns and no run stays in the
\* loop for ever.
ScanLoopAdvances ==
    [][(pc = "scan" /\ pc' = "scan") => (bnd.maxy - y') < (bnd.maxy - y)]_vars

====
